---------------------------- MODULE Spec2Model ----------------------------
(***************************************************************************)
(* Model of warehouse/admin/views/projects.py: the four admin views        *)
(* project_list, project_detail, releases_list and journals_list.          *)
(*                                                                         *)
(* Text (query text, page parameter, names, versions) is a sequence of     *)
(* one-character strings, so that shlex.split, str.split, str.lower, int   *)
(* and ILIKE are computed character by character.                          *)
(***************************************************************************)
EXTENDS Integers, Sequences, FiniteSets, TLC

VARIABLES db, phase, request, response

vars == <<db, phase, request, response>>

(***************************************************************************)
(* Bounds of the model.                                                    *)
(***************************************************************************)
\* releases of the first project in the database of the search specification
MaxReleases == 4
\* terms of a query made of whole terms
MaxTerms == 2
\* rows beyond one full page in the database of the paging specification
MaxExtra == 3
\* lexemes a query text is made of
MaxFrags == 3
\* characters of a page parameter
MaxPageLen == 2

(***************************************************************************)
(* Characters.                                                             *)
(***************************************************************************)
UpperAlpha ==
    <<"A","B","C","D","E","F","G","H","I","J","K","L","M",
      "N","O","P","Q","R","S","T","U","V","W","X","Y","Z">>

LowerAlpha ==
    <<"a","b","c","d","e","f","g","h","i","j","k","l","m",
      "n","o","p","q","r","s","t","u","v","w","x","y","z">>

Digits == <<"0","1","2","3","4","5","6","7","8","9">>

\* the characters of the model in ASCII order (the order of a C collation)
AsciiOrder ==
    <<" ", "\"", "%", "'", "+", "-", ".">> \o Digits \o <<":">> \o UpperAlpha
        \o <<"\\", "_">> \o LowerAlpha

IndexOf(seq, c) ==
    CHOOSE i \in 1..Len(seq) : seq[i] = c

Has(seq, c) ==
    \E i \in 1..Len(seq) : seq[i] = c

Rank ==
    [c \in {AsciiOrder[i] : i \in 1..Len(AsciiOrder)} |-> IndexOf(AsciiOrder, c)]

\* the code point order of two characters
CharRank(c) ==
    Rank[c]

\* str.lower / SQL lower() on one character
LowerChar(c) ==
    IF Has(UpperAlpha, c) THEN LowerAlpha[IndexOf(UpperAlpha, c)] ELSE c

\* str.lower()
Lower(s) ==
    [i \in 1..Len(s) |-> LowerChar(s[i])]

\* s[from:] of Python, from counted from 1
Drop(s, n) ==
    SubSeq(s, n + 1, Len(s))

RECURSIVE StrLess(_, _)
\* a < b for two texts, character by character
StrLess(a, b) ==
    IF b = <<>> THEN FALSE
    ELSE IF a = <<>> THEN TRUE
    ELSE IF a[1] = b[1] THEN StrLess(Tail(a), Tail(b))
    ELSE CharRank(a[1]) < CharRank(b[1])


(***************************************************************************)
(* shlex.split(q): POSIX mode, whitespace_split, no comment characters.    *)
(* The scanner of shlex.read_token, one character per step; the result is  *)
(* the list of terms, or the ValueError it raises at the end of the text   *)
(* inside a quotation or after an escape character.                        *)
(***************************************************************************)
Whitespace == {" "}

Quotes == {"'", "\""}

Escape == {"\\"}

EscapedQuotes == {"\""}

RECURSIVE read_token(_, _, _, _, _, _)
read_token(s, i, state, escapedstate, token, out) ==
    IF i > Len(s) THEN
        IF state \in Quotes THEN [ok |-> FALSE, terms |-> <<>>]
        ELSE IF state \in Escape THEN [ok |-> FALSE, terms |-> <<>>]
        ELSE IF state = "a" THEN [ok |-> TRUE, terms |-> Append(out, token)]
        ELSE [ok |-> TRUE, terms |-> out]
    ELSE
        LET c == s[i] IN
        IF state = " " THEN
            IF c \in Whitespace THEN
                read_token(s, i + 1, " ", escapedstate, <<>>, out)
            ELSE IF c \in Escape THEN
                read_token(s, i + 1, c, "a", <<>>, out)
            ELSE IF c \in Quotes THEN
                read_token(s, i + 1, c, escapedstate, <<>>, out)
            ELSE
                read_token(s, i + 1, "a", escapedstate, <<c>>, out)
        ELSE IF state \in Quotes THEN
            IF c = state THEN
                read_token(s, i + 1, "a", escapedstate, token, out)
            ELSE IF c \in Escape /\ state \in EscapedQuotes THEN
                read_token(s, i + 1, c, state, token, out)
            ELSE
                read_token(s, i + 1, state, escapedstate, Append(token, c), out)
        ELSE IF state \in Escape THEN
            IF escapedstate \in Quotes /\ c # state /\ c # escapedstate THEN
                read_token(s, i + 1, escapedstate, escapedstate,
                           token \o <<state, c>>, out)
            ELSE
                read_token(s, i + 1, escapedstate, escapedstate,
                           Append(token, c), out)
        ELSE
            IF c \in Whitespace THEN
                read_token(s, i + 1, " ", escapedstate, <<>>, Append(out, token))
            ELSE IF c \in Quotes THEN
                read_token(s, i + 1, c, escapedstate, token, out)
            ELSE IF c \in Escape THEN
                read_token(s, i + 1, c, "a", token, out)
            ELSE
                read_token(s, i + 1, "a", escapedstate, Append(token, c), out)

shlex_split(s) ==
    read_token(s, 1, " ", " ", <<>>, <<>>)

(***************************************************************************)
(* int(request.params.get("page", 1)): surrounding whitespace is dropped,  *)
(* then an optional sign, then decimal digits, single underscores allowed  *)
(* between digits; anything else raises ValueError.                        *)
(***************************************************************************)
RECURSIVE lstrip(_)
lstrip(s) ==
    IF s # <<>> /\ s[1] \in Whitespace THEN lstrip(Tail(s)) ELSE s

RECURSIVE rstrip(_)
rstrip(s) ==
    IF s # <<>> /\ s[Len(s)] \in Whitespace
    THEN rstrip(SubSeq(s, 1, Len(s) - 1)) ELSE s

strip(s) ==
    rstrip(lstrip(s))

IsDigit(c) ==
    Has(Digits, c)

DigitsOK(t) ==
    /\ t # <<>>
    /\ IsDigit(t[1])
    /\ IsDigit(t[Len(t)])
    /\ \A i \in 1..Len(t) : IsDigit(t[i]) \/ t[i] = "_"
    /\ \A i \in 1..(Len(t) - 1) : ~(t[i] = "_" /\ t[i + 1] = "_")

RECURSIVE DigitsValue(_, _)
DigitsValue(t, acc) ==
    IF t = <<>> THEN acc
    ELSE IF t[1] = "_" THEN DigitsValue(Tail(t), acc)
    ELSE DigitsValue(Tail(t), 10 * acc + (IndexOf(Digits, t[1]) - 1))

int(s) ==
    LET t == strip(s)
        signed == t # <<>> /\ t[1] \in {"+", "-"}
        body == IF signed THEN Tail(t) ELSE t
    IN  IF DigitsOK(body)
        THEN [ok |-> TRUE,
              value |-> IF signed /\ t[1] = "-"
                        THEN 0 - DigitsValue(body, 0) ELSE DigitsValue(body, 0)]
        ELSE [ok |-> FALSE, value |-> 0]

\* a variant that takes a page that is no integer as page 1
page_num_lenient(page) ==
    IF page.present /\ int(page.text).ok THEN int(page.text)
    ELSE [ok |-> TRUE, value |-> 1]

\* request.params.get("page", 1), then int()
page_num(page) ==
    IF page.present THEN int(page.text) ELSE [ok |-> TRUE, value |-> 1]

(***************************************************************************)
(* column.ilike(term): PostgreSQL ILIKE.  Both sides are lower-cased; in   *)
(* the pattern % matches any run of characters, _ any one character and a  *)
(* backslash takes the next character literally.  Reaching a backslash     *)
(* that ends the pattern while text is left is an error of the statement.  *)
(* The result is "T", "F" or "E".                                          *)
(***************************************************************************)
RECURSIVE MatchText(_, _)
MatchText(p, t) ==
    IF p = <<>> THEN (IF t = <<>> THEN "T" ELSE "F")
    ELSE IF p[1] = "%" THEN
        LET here == MatchText(Tail(p), t) IN
        IF here # "F" THEN here
        ELSE IF t = <<>> THEN "F"
        ELSE MatchText(p, Tail(t))
    ELSE IF t = <<>> THEN "F"
    ELSE IF p[1] = "\\" THEN
        IF Len(p) = 1 THEN "E"
        ELSE IF p[2] = t[1] THEN MatchText(Drop(p, 2), Tail(t))
        ELSE "F"
    ELSE IF p[1] = "_" THEN MatchText(Tail(p), Tail(t))
    ELSE IF p[1] = t[1] THEN MatchText(Tail(p), Tail(t))
    ELSE "F"

\* a variant that compares letters with regard to case (LIKE)
like(column, term) ==
    MatchText(term, column)

ilike(column, term) ==
    MatchText(Lower(term), Lower(column))

RECURSIVE and_(_, _)
\* a variant that asks for every condition (and_)
and_(filters, column) ==
    IF filters = <<>> THEN "T"
    ELSE LET first == ilike(column, filters[1]) IN
         IF first = "T" THEN and_(Tail(filters), column) ELSE first

\* or_(*filters) on one row whose column has the value `column`, the
\* conditions tried in turn until one is true
RECURSIVE or_(_, _)
or_(filters, column) ==
    IF filters = <<>> THEN "F"
    ELSE LET first == ilike(column, filters[1]) IN
         IF first = "F" THEN or_(Tail(filters), column) ELSE first

(***************************************************************************)
(* The database behind request.db: the tables of Project, Role (joined to  *)
(* User), Release and JournalEntry, each a sequence of rows in the order   *)
(* the table holds them.                                                   *)
(***************************************************************************)
RECURSIVE Dec(_)
\* the decimal text of a natural number
Dec(n) ==
    IF n < 10 THEN <<Digits[n + 1]>>
    ELSE Dec(n \div 10) \o <<Digits[(n % 10) + 1]>>

Pick(seq, i) ==
    seq[((i - 1) % Len(seq)) + 1]

ProjectName(i) ==
    IF i = 1 THEN <<"A">>
    ELSE IF i = 2 THEN <<"1">>
    ELSE <<Pick(<<"a", "b", "A">>, i)>> \o Dec(i)

Version(j) ==
    Dec(j) \o Pick(<<  <<>>, <<"a">>, <<"A", "1">>  >>, j)

Owner == <<"O", "w", "n", "e", "r">>

Maintainer == <<"M", "a", "i", "n", "t", "a", "i", "n", "e", "r">>

Project(i) ==
    [name |-> ProjectName(i), normalized_name |-> Lower(ProjectName(i))]

Role(i, username, role_name) ==
    [project |-> ProjectName(i), username |-> username, role_name |-> role_name]

Release(i, j) ==
    [project |-> ProjectName(i), version |-> Version(j),
     _pypi_ordering |-> IF j % 2 = 1 THEN j + 1 ELSE j - 1]

JournalEntry(name, k) ==
    [name |-> name,
     version |-> IF k % 3 = 0 THEN [null |-> TRUE, text |-> <<>>]
                 ELSE [null |-> FALSE, text |-> Version(k)],
     submitted_date |-> (k + 1) \div 2,
     id |-> k]

\* a database of np projects, the first with nr releases and nj journal
\* entries; `ties` is the order the database gives rows of equal sort key
Database(np, nr, nj, ties) ==
    [projects |-> [i \in 1..np |-> Project(i)],
     roles |->
        <<Role(1, <<"b", "o", "b">>, Owner),
          Role(1, <<"c", "a", "r", "o", "l">>, Maintainer),
          Role(1, <<"b", "o", "b">>, Maintainer),
          Role(1, <<"a", "l">>, Owner)>>
        \o (IF np >= 2
            THEN <<Role(2, <<"b", "o", "b">>, Owner),
                   Role(2, <<"d", "a", "n">>, Maintainer),
                   Role(2, <<"d", "a", "n">>, Owner)>>
            ELSE <<>>),
     releases |->
        (IF np >= 2 THEN <<Release(2, 1), Release(2, 5)>> ELSE <<>>)
        \o [j \in 1..nr |-> Release(1, j)],
     journals |->
        <<JournalEntry(Lower(ProjectName(1)), 1)>>
        \o (IF np >= 2
            THEN <<JournalEntry(ProjectName(2), 2), JournalEntry(ProjectName(2), 4)>>
            ELSE <<>>)
        \o [k \in 1..nj |-> JournalEntry(ProjectName(1), k)],
     ties |-> ties]

(***************************************************************************)
(* Queries.                                                                *)
(***************************************************************************)
\* the columns the views filter on, as values that may be NULL
Column(column, r) ==
    CASE column = "Project.name" -> [null |-> FALSE, text |-> r.name]
      [] column = "Release.version" -> [null |-> FALSE, text |-> r.version]
      [] column = "JournalEntry.version" -> r.version

\* a variant that orders by submitted_date ascending
SubmittedBefore(a, b) == a.submitted_date < b.submitted_date

\* order_by(JournalEntry.submitted_date.desc())
SubmittedAfter(a, b) == a.submitted_date > b.submitted_date

\* the sort keys of the views: row a comes strictly before row b
Before(order, a, b) ==
    CASE order = "Project.name" -> StrLess(a.name, b.name)
      [] order = "Release._pypi_ordering.desc()" -> a._pypi_ordering > b._pypi_ordering
      [] order = "JournalEntry.submitted_date.desc()" -> SubmittedAfter(a, b)
      [] order = "(role_name, username)" ->
            \/ StrLess(a.role_name, b.role_name)
            \/ a.role_name = b.role_name /\ StrLess(a.username, b.username)

\* ORDER BY: rows of equal key come in table order or in reverse table
\* order (`ties`)
OrderBy(rows, order, ties) ==
    LET n == Len(rows)
        first(i, j) ==
            \/ Before(order, rows[i], rows[j])
            \/ /\ ~Before(order, rows[j], rows[i])
               /\ IF ties THEN i < j ELSE j < i
        pos == [i \in 1..n |-> 1 + Cardinality({j \in 1..n : first(j, i)})]
    IN  [k \in 1..n |-> rows[CHOOSE i \in 1..n : pos[i] = k]]

\* query[first:last] / .limit(): the rows from offset `first`, at most `count`
Slice(rows, first, count) ==
    IF first >= Len(rows) THEN <<>>
    ELSE SubSeq(rows, first + 1,
                IF first + count < Len(rows) THEN first + count ELSE Len(rows))

\* .filter(or_(*filters)) on a text column: no condition at all leaves the
\* query as it is; a NULL column matches nothing
Filter(rows, filters, column) ==
    IF filters = <<>> THEN rows
    ELSE LET keep(r) == /\ ~Column(column, r).null
                        /\ or_(filters, Column(column, r).text) = "T"
         IN  SelectSeq(rows, keep)

\* whether the statement fails on one of the rows it reads
Fails(rows, filters, column) ==
    \E i \in 1..Len(rows) :
        /\ ~Column(column, rows[i]).null
        /\ or_(filters, Column(column, rows[i]).text) = "E"

items_per_page == 25

\* a variant whose slice starts one page too far
SQLAlchemyORMPage_offset(collection, page) ==
    LET asked == IF page < 1 THEN 1 ELSE page
        item_count == Len(collection)
        page_count == IF item_count > 0
                      THEN ((item_count - 1) \div items_per_page) + 1 ELSE 0
    IN  [items |-> Slice(collection, asked * items_per_page, items_per_page),
         item_count |-> item_count,
         page_count |-> page_count,
         page |-> IF item_count > 0 /\ asked > page_count THEN page_count ELSE asked]

(***************************************************************************)
(* SQLAlchemyORMPage(query, page=page_num, items_per_page=25): paginate's  *)
(* Page.  A page number below 1 is taken as 1; the items are the slice of  *)
(* the query for that page; the page number kept is at most the last page. *)
(***************************************************************************)
SQLAlchemyORMPage(collection, page) ==
    LET asked == IF page < 1 THEN 1 ELSE page
        item_count == Len(collection)
        page_count == IF item_count > 0
                      THEN ((item_count - 1) \div items_per_page) + 1 ELSE 0
    IN  [items |-> Slice(collection, (asked - 1) * items_per_page, items_per_page),
         item_count |-> item_count,
         page_count |-> page_count,
         page |-> IF item_count > 0 /\ asked > page_count THEN page_count ELSE asked]

(***************************************************************************)
(* Requests and responses.  A text that may be absent (request.params.get  *)
(* returning None) is [present, text].                                     *)
(***************************************************************************)
None == [present |-> FALSE, text |-> <<>>]

Text(t) == [present |-> TRUE, text |-> t]

\* `if q:` of Python
Truthy(q) ==
    q.present /\ q.text # <<>>

NoProject == [name |-> <<>>, normalized_name |-> <<>>]

NoPage == [items |-> <<>>, item_count |-> 0, page_count |-> 0, page |-> 0]

\* the fields every response of the model has; a view sets its own
Response ==
    [status |-> 200, exc |-> "", location |-> [route |-> "", project_name |-> <<>>],
     page |-> NoPage, matching |-> <<>>, query |-> None, project |-> NoProject,
     maintainers |-> <<>>, journal |-> <<>>, executed |-> <<>>]

HTTPBadRequest ==
    [Response EXCEPT !.status = 400, !.exc = "HTTPBadRequest"]

\* a variant that redirects to the name of the project
HTTPMovedPermanently_name(route, project) ==
    [Response EXCEPT !.status = 301, !.exc = "HTTPMovedPermanently",
                     !.location = [route |-> route, project_name |-> project.name]]

\* raise HTTPMovedPermanently(request.current_route_path(project_name=...))
HTTPMovedPermanently(route, project) ==
    [Response EXCEPT !.status = 301, !.exc = "HTTPMovedPermanently",
                     !.location = [route |-> route,
                                   project_name |-> project.normalized_name]]

\* an exception no view catches: the request fails
Uncaught(exc, executed) ==
    [Response EXCEPT !.status = 500, !.exc = exc, !.executed = executed]

\* the two statements a Page runs: the slice of the page, then the count
PageQueries == <<"slice", "count">>

(***************************************************************************)
(* project_list                                                            *)
(***************************************************************************)
project_list_view(d, q, page) ==
    LET num == page_num(page)
        projects_query == OrderBy(d.projects, "Project.name", d.ties)
        split == IF Truthy(q) THEN shlex_split(q.text) ELSE [ok |-> TRUE, terms |-> <<>>]
        filters == split.terms
        matching == Filter(projects_query, filters, "Project.name")
    IN  IF ~num.ok THEN HTTPBadRequest
        ELSE IF ~split.ok THEN Uncaught("ValueError", <<>>)
        ELSE IF Fails(d.projects, filters, "Project.name")
        THEN Uncaught("DataError", <<"slice">>)
        ELSE [Response EXCEPT !.page = SQLAlchemyORMPage(matching, num.value),
                              !.matching = matching,
                              !.query = q,
                              !.executed = PageQueries]

(***************************************************************************)
(* project_detail                                                          *)
(***************************************************************************)
\* a variant without the DISTINCT ON
DistinctOn_none(rows) ==
    {rows}

\* .distinct(User.username): the ways to keep one row for each username
DistinctOn(rows) ==
    LET n == Len(rows)
        sets == {S \in SUBSET (1..n) :
                    \A i \in 1..n :
                        Cardinality({j \in S : rows[j].username = rows[i].username}) = 1}
        seq(S) == [k \in 1..Cardinality(S) |->
                      rows[CHOOSE i \in S : Cardinality({j \in S : j <= i}) = k]]
    IN  {seq(S) : S \in sets}

\* sorted(maintainers, key=lambda x: (x.role_name, x.user.username))
sorted(maintainers) ==
    OrderBy(maintainers, "(role_name, username)", TRUE)

journal_limit == 50

ProjectRoles(d, project) ==
    LET of(r) == r.project = project.name IN SelectSeq(d.roles, of)

ProjectJournals(d, project) ==
    LET of(r) == r.name = project.name IN SelectSeq(d.journals, of)

ProjectReleases(d, project) ==
    LET of(r) == r.project = project.name IN SelectSeq(d.releases, of)

\* `kept` is the rows the DISTINCT ON of the roles query returned
project_detail_view(d, project, project_name, kept) ==
    IF project_name # project.normalized_name
    THEN HTTPMovedPermanently("admin.project.detail", project)
    ELSE [Response EXCEPT
            !.project = project,
            !.maintainers = sorted(kept),
            !.journal = Slice(OrderBy(ProjectJournals(d, project),
                                      "JournalEntry.submitted_date.desc()", d.ties),
                              0, journal_limit),
            !.executed = <<"roles", "journal">>]

(***************************************************************************)
(* releases_list and journals_list                                         *)
(***************************************************************************)
\* ":" in term
HasColon(term) == Has(term, ":")

\* field, value = term.split(":", 1)
split_field(term) == SubSeq(term, 1, IndexOf(term, ":") - 1)

split_value(term) == Drop(term, IndexOf(term, ":"))

VersionKey == <<"v", "e", "r", "s", "i", "o", "n">>

RECURSIVE version_filters_bare(_)
\* a variant that takes a term without a colon as a version
version_filters_bare(terms) ==
    IF terms = <<>> THEN <<>>
    ELSE LET term == terms[1] IN
         IF ~HasColon(term) THEN <<term>> \o version_filters_bare(Tail(terms))
         ELSE IF Lower(split_field(term)) = VersionKey
         THEN <<split_value(term)>> \o version_filters_bare(Tail(terms))
         ELSE version_filters_bare(Tail(terms))

RECURSIVE version_filters(_)
\* the loop over the terms: the values of the version:value terms
version_filters(terms) ==
    IF terms = <<>> THEN <<>>
    ELSE LET term == terms[1] IN
         IF HasColon(term) /\ Lower(split_field(term)) = VersionKey
         THEN <<split_value(term)>> \o version_filters(Tail(terms))
         ELSE version_filters(Tail(terms))

\* a variant that reads the page parameter before it looks at the name
releases_list_view_page_first(d, project, project_name, q, page) ==
    LET num == page_num(page)
        releases_query == OrderBy(ProjectReleases(d, project),
                                  "Release._pypi_ordering.desc()", d.ties)
        split == IF Truthy(q) THEN shlex_split(q.text) ELSE [ok |-> TRUE, terms |-> <<>>]
        filters == version_filters(split.terms)
        matching == Filter(releases_query, filters, "Release.version")
    IN  IF ~num.ok THEN HTTPBadRequest
        ELSE IF project_name # project.normalized_name
        THEN HTTPMovedPermanently("admin.project.releases", project)
        ELSE IF ~split.ok THEN Uncaught("ValueError", <<>>)
        ELSE IF Fails(releases_query, filters, "Release.version")
        THEN Uncaught("DataError", <<"slice">>)
        ELSE [Response EXCEPT !.page = SQLAlchemyORMPage(matching, num.value),
                              !.matching = matching,
                              !.project = project,
                              !.query = q,
                              !.executed = PageQueries]

releases_list_view(d, project, project_name, q, page) ==
    LET num == page_num(page)
        releases_query == OrderBy(ProjectReleases(d, project),
                                  "Release._pypi_ordering.desc()", d.ties)
        split == IF Truthy(q) THEN shlex_split(q.text) ELSE [ok |-> TRUE, terms |-> <<>>]
        filters == version_filters(split.terms)
        matching == Filter(releases_query, filters, "Release.version")
    IN  IF project_name # project.normalized_name
        THEN HTTPMovedPermanently("admin.project.releases", project)
        ELSE IF ~num.ok THEN HTTPBadRequest
        ELSE IF ~split.ok THEN Uncaught("ValueError", <<>>)
        ELSE IF Fails(releases_query, filters, "Release.version")
        THEN Uncaught("DataError", <<"slice">>)
        ELSE [Response EXCEPT !.page = SQLAlchemyORMPage(matching, num.value),
                              !.matching = matching,
                              !.project = project,
                              !.query = q,
                              !.executed = PageQueries]

journals_list_view(d, project, project_name, q, page) ==
    LET num == page_num(page)
        journals_query == OrderBy(ProjectJournals(d, project),
                                  "JournalEntry.submitted_date.desc()", d.ties)
        split == IF Truthy(q) THEN shlex_split(q.text) ELSE [ok |-> TRUE, terms |-> <<>>]
        filters == version_filters(split.terms)
        matching == Filter(journals_query, filters, "JournalEntry.version")
    IN  IF project_name # project.normalized_name
        THEN HTTPMovedPermanently("admin.project.journals", project)
        ELSE IF ~num.ok THEN HTTPBadRequest
        ELSE IF ~split.ok THEN Uncaught("ValueError", <<>>)
        ELSE IF Fails(journals_query, filters, "JournalEntry.version")
        THEN Uncaught("DataError", <<"slice">>)
        ELSE [Response EXCEPT !.page = SQLAlchemyORMPage(matching, num.value),
                              !.matching = matching,
                              !.project = project,
                              !.query = q,
                              !.executed = PageQueries]

(***************************************************************************)
(* The inputs of the model.                                                *)
(***************************************************************************)
RECURSIVE Texts(_, _)
\* the texts made of at most k of the given parts
Texts(parts, k) ==
    IF k = 0 THEN {<<>>}
    ELSE LET shorter == Texts(parts, k - 1) IN
         shorter \cup {t \o parts[i] : t \in shorter, i \in 1..Len(parts)}

\* what a query text is made of
Lexemes ==
    <<  <<"V", "e", "r", "S", "i", "o", "n", ":">>,
        <<":">>, <<" ">>, <<"\"">>, <<"'">>, <<"\\">>, <<"%">>, <<"1">>, <<"A">>  >>

\* whole terms of a query
Terms ==
    <<  <<"V", "e", "r", "S", "i", "o", "n", ":", "1">>,
        <<"v", "e", "r", "s", "i", "o", "n", ":", "%", "A", "%">>,
        <<"V", "E", "R", "S", "I", "O", "N", ":", "_", "a">>,
        <<"n", "a", "m", "e", ":", "1">>,
        <<"1">>,
        <<"a", "%">>  >>

RECURSIVE Joined(_, _)
\* the texts made of at most k of the given terms, a space between two
Joined(terms, k) ==
    IF k = 0 THEN {<<>>}
    ELSE LET shorter == Joined(terms, k - 1) IN
         shorter \cup {(IF t = <<>> THEN t ELSE t \o <<" ">>) \o terms[i] :
                          t \in shorter, i \in 1..Len(terms)}

Queries ==
    {None} \cup {Text(t) : t \in Texts(Lexemes, MaxFrags) \cup Joined(Terms, MaxTerms)}

FewQueries ==
    {None, Text(<<"%", "1">>),
     Text(<<"V", "e", "r", "S", "i", "o", "n", ":", "%", "1", "%">>)}

PageChars == <<"0", "1", "2", "-", " ", "_", "x">>

Pages ==
    {None} \cup {Text(t) : t \in Texts([i \in 1..Len(PageChars) |-> <<PageChars[i]>>],
                                       MaxPageLen)}

FewPages ==
    {None, Text(<<"2">>), Text(<<"x">>)}

\* the requests of the search specification and of the paging specification
Searches ==
    {[q |-> q, page |-> page] : q \in Queries, page \in {None}}
        \cup {[q |-> q, page |-> page] : q \in FewQueries, page \in FewPages}

Pagings ==
    {[q |-> q, page |-> page] : q \in FewQueries, page \in Pages}

\* the path segments the route resolves to the project
Segments(project) ==
    {project.normalized_name, project.name}

\* the projects the requests of the model are about: those that have rows
Projects ==
    {db.projects[i] : i \in {i \in 1..Len(db.projects) : i <= 2}}

(***************************************************************************)
(* The state machine: one request at a time is handled by its view and     *)
(* its response returned.                                                  *)
(***************************************************************************)
NoRequest ==
    [view |-> "", project |-> NoProject, project_name |-> <<>>,
     q |-> None, page |-> None]

Init ==
    /\ \E ties \in BOOLEAN :
          db = Database(3, MaxReleases, MaxReleases + 1, ties)
    /\ phase = "idle"
    /\ request = NoRequest
    /\ response = Response

InitPages ==
    /\ \E ties \in BOOLEAN :
          db = Database(items_per_page + MaxExtra, items_per_page + MaxExtra,
                        journal_limit + MaxExtra, ties)
    /\ phase = "idle"
    /\ request = NoRequest
    /\ response = Response

project_list(q, page) ==
    /\ phase = "idle"
    /\ phase' = "done"
    /\ request' = [NoRequest EXCEPT !.view = "project_list", !.q = q, !.page = page]
    /\ response' = project_list_view(db, q, page)
    /\ UNCHANGED db

project_detail(project, project_name) ==
    /\ phase = "idle"
    /\ phase' = "done"
    /\ request' = [NoRequest EXCEPT !.view = "project_detail", !.project = project,
                                    !.project_name = project_name]
    /\ \E kept \in DistinctOn(ProjectRoles(db, project)) :
          response' = project_detail_view(db, project, project_name, kept)
    /\ UNCHANGED db

releases_list(project, project_name, q, page) ==
    /\ phase = "idle"
    /\ phase' = "done"
    /\ request' = [view |-> "releases_list", project |-> project,
                   project_name |-> project_name, q |-> q, page |-> page]
    /\ response' = releases_list_view(db, project, project_name, q, page)
    /\ UNCHANGED db

journals_list(project, project_name, q, page) ==
    /\ phase = "idle"
    /\ phase' = "done"
    /\ request' = [view |-> "journals_list", project |-> project,
                   project_name |-> project_name, q |-> q, page |-> page]
    /\ response' = journals_list_view(db, project, project_name, q, page)
    /\ UNCHANGED db

\* the response is returned and the next request can come
Return ==
    /\ phase = "done"
    /\ phase' = "idle"
    /\ request' = NoRequest
    /\ response' = Response
    /\ UNCHANGED db

Next ==
    \/ /\ phase = "idle"
       /\ \E in \in Searches : project_list(in.q, in.page)
    \/ /\ phase = "idle"
       /\ \E project \in Projects : \E project_name \in Segments(project) :
             project_detail(project, project_name)
    \/ /\ phase = "idle"
       /\ \E in \in Searches : \E project \in Projects :
             \E project_name \in Segments(project) :
                releases_list(project, project_name, in.q, in.page)
    \/ /\ phase = "idle"
       /\ \E in \in Searches : \E project \in Projects :
             \E project_name \in Segments(project) :
                journals_list(project, project_name, in.q, in.page)
    \/ Return

NextPages ==
    \/ /\ phase = "idle"
       /\ \E in \in Pagings : project_list(in.q, in.page)
    \/ /\ phase = "idle"
       /\ \E project \in Projects : \E project_name \in Segments(project) :
             project_detail(project, project_name)
    \/ /\ phase = "idle"
       /\ \E in \in Pagings : \E project \in Projects :
             \E project_name \in Segments(project) :
                releases_list(project, project_name, in.q, in.page)
    \/ /\ phase = "idle"
       /\ \E in \in Pagings : \E project \in Projects :
             \E project_name \in Segments(project) :
                journals_list(project, project_name, in.q, in.page)
    \/ Return

Spec == Init /\ [][Next]_vars

SpecPages == InitPages /\ [][NextPages]_vars

(***************************************************************************)
(* What the claims speak of.                                               *)
(***************************************************************************)
Done(view) ==
    phase = "done" /\ request.view = view

ListViews == {"project_list", "releases_list", "journals_list"}

ProjectListViews == {"releases_list", "journals_list"}

ProjectViews == {"project_detail", "releases_list", "journals_list"}

\* the project_name segment is the project's normalized_name
Canonical ==
    request.project_name = request.project.normalized_name

\* the page parameter is given and is no integer
BadPage ==
    request.page.present /\ ~int(request.page.text).ok

\* the page number asked for
PageAsked ==
    IF request.page.present THEN int(request.page.text).value ELSE 1

\* the route_name of the view_config of each view
RouteOf(view) ==
    CASE view = "project_list" -> "admin.project.list"
      [] view = "project_detail" -> "admin.project.detail"
      [] view = "releases_list" -> "admin.project.releases"
      [] view = "journals_list" -> "admin.project.journals"

InSeq(seq, x) ==
    \E i \in 1..Len(seq) : seq[i] = x

\* `part` is a substring of `text`
Contains(text, part) ==
    \E k \in 0..(Len(text) - Len(part)) : SubSeq(text, k + 1, k + Len(part)) = part

RECURSIVE LikePattern(_, _)
\* the whole of text t is an instance of the LIKE pattern p
LikePattern(p, t) ==
    IF p = <<>> THEN t = <<>>
    ELSE IF p[1] = "%" THEN \E k \in 0..Len(t) : LikePattern(Tail(p), Drop(t, k))
    ELSE IF p[1] = "\\"
    THEN Len(p) >= 2 /\ t # <<>> /\ p[2] = t[1] /\ LikePattern(Drop(p, 2), Tail(t))
    ELSE t # <<>> /\ (p[1] = "_" \/ p[1] = t[1]) /\ LikePattern(Tail(p), Tail(t))

\* the same, letters compared without regard to case
Matches(term, text) ==
    LikePattern(Lower(term), Lower(text))

\* the terms of the query text of the request
QueryTerms ==
    shlex_split(request.q.text).terms

\* a term version:value, the key in any case
IsVersionTerm(term) ==
    \E k \in 1..Len(term) :
        /\ term[k] = ":"
        /\ \A j \in 1..(k - 1) : term[j] # ":"
        /\ Lower(SubSeq(term, 1, k - 1)) = <<"v", "e", "r", "s", "i", "o", "n">>

\* the text after the first colon of a term
ValueOf(term) ==
    LET k == CHOOSE k \in 1..Len(term) :
                term[k] = ":" /\ \A j \in 1..(k - 1) : term[j] # ":"
    IN  SubSeq(term, k + 1, Len(term))

VersionTerms ==
    SelectSeq(QueryTerms, IsVersionTerm)

\* the rows of the table a project listing is about
TableOf(view) ==
    IF view = "releases_list" THEN db.releases ELSE db.journals

\* the row belongs to the project of the request
OfProject(view, row) ==
    IF view = "releases_list" THEN row.project = request.project.name
    ELSE row.name = request.project.name

\* the version of a row of either table, as a column that may be NULL
VersionOf(view, row) ==
    IF view = "releases_list" THEN [null |-> FALSE, text |-> row.version]
    ELSE row.version

(***************************************************************************)
(* C1                                                                      *)
(***************************************************************************)
\* C1 as stated: in project_list, releases_list and journals_list a page
\* parameter that is no integer gives a 400 response, whatever the query
\* text and the project_name segment are.
C1_BadPageAlways400 ==
    \A view \in ListViews :
        Done(view) /\ BadPage => response.status = 400

\* C1 amended: in project_list always, and in releases_list and
\* journals_list when project_name is the normalized_name, a page parameter
\* that is no integer gives a 400 response, whatever the query text is.
C1_BadPage400OnCanonicalPath ==
    \A view \in ListViews :
        Done(view) /\ BadPage /\ (view = "project_list" \/ Canonical)
            => response.status = 400 /\ response.exc = "HTTPBadRequest"

C1_Witness ==
    /\ Done("journals_list")
    /\ Canonical
    /\ BadPage
    /\ Truthy(request.q)
    /\ response.status = 400

(***************************************************************************)
(* C2                                                                      *)
(***************************************************************************)
\* C2: in project_detail, releases_list and journals_list a project_name
\* that differs from the normalized_name ends in a 301 redirect to the
\* route of the view with project_name set to the normalized_name, and no
\* query has been executed.
C2_NonCanonicalRedirects ==
    \A view \in ProjectViews :
        Done(view) /\ ~Canonical =>
            /\ response.status = 301
            /\ response.location =
                  [route |-> RouteOf(view),
                   project_name |-> request.project.normalized_name]
            /\ response.executed = <<>>

C2_Witness ==
    /\ Done("project_detail")
    /\ ~Canonical
    /\ response.status = 301
    /\ response.location.project_name # request.project_name

(***************************************************************************)
(* C3                                                                      *)
(***************************************************************************)
\* C3 as stated: in a project_list response to a non-empty q, a project is
\* returned if and only if its name contains one of the terms of q as a
\* substring, letters compared without regard to case.
C3_SubstringOfName ==
    Done("project_list") /\ response.status = 200 /\ Truthy(request.q) =>
        \A i \in 1..Len(db.projects) :
            InSeq(response.matching, db.projects[i])
                <=> \E k \in 1..Len(QueryTerms) :
                       Contains(Lower(db.projects[i].name), Lower(QueryTerms[k]))

\* C3 amended: in a project_list response to a non-empty q, q is split with
\* shell-word-splitting semantics; a project is returned if and only if its
\* whole name is an instance of one of the terms taken as a LIKE pattern
\* (% any run of characters, _ any one character, backslash before a
\* literal character), letters compared without regard to case; when the
\* split gives no term at all, every project is returned.
C3_NameMatchesSomeTerm ==
    Done("project_list") /\ response.status = 200 /\ Truthy(request.q) =>
        /\ \A i \in 1..Len(response.matching) :
              InSeq(db.projects, response.matching[i])
        /\ \A i \in 1..Len(db.projects) :
              InSeq(response.matching, db.projects[i])
                  <=> \/ QueryTerms = <<>>
                      \/ \E k \in 1..Len(QueryTerms) :
                            Matches(QueryTerms[k], db.projects[i].name)

C3_Witness ==
    /\ Done("project_list")
    /\ response.status = 200
    /\ Len(QueryTerms) = 2
    /\ Len(response.matching) = 2
    /\ \E i \in 1..Len(db.projects) : ~InSeq(response.matching, db.projects[i])
    /\ \A k \in 1..2 : \E i \in 1..2 : ~Matches(QueryTerms[k], response.matching[i].name)

(***************************************************************************)
(* C4                                                                      *)
(***************************************************************************)
\* C4: the views surface two error conditions only, a page parameter that
\* is no integer (400) and a project_name that is not the normalized_name
\* (301); every other input, whatever the query text, gives a successful
\* response.
C4_OnlyTwoErrors ==
    \A view \in ListViews \cup ProjectViews :
        Done(view) =>
            /\ response.status \in {200, 301, 400}
            /\ response.status = 400 => BadPage
            /\ response.status = 301 => ~Canonical

(***************************************************************************)
(* C5                                                                      *)
(***************************************************************************)
\* the order of the maintainers: role name, then username
RoleKeyLess(a, b) ==
    \/ StrLess(a.role_name, b.role_name)
    \/ a.role_name = b.role_name /\ StrLess(a.username, b.username)

\* C5: on a project_detail request with the canonical name the maintainers
\* are roles of that project, no two of the same username, in ascending
\* order of (role name, username).
C5_MaintainersDistinctSorted ==
    Done("project_detail") /\ Canonical =>
        LET m == response.maintainers IN
        /\ response.status = 200
        /\ \A i \in 1..Len(m) :
              InSeq(db.roles, m[i]) /\ m[i].project = request.project.name
        /\ \A i, j \in 1..Len(m) : i # j => m[i].username # m[j].username
        /\ \A i, j \in 1..Len(m) : i < j => RoleKeyLess(m[i], m[j])

C5_Witness ==
    /\ Done("project_detail")
    /\ Canonical
    /\ Len(response.maintainers) >= 3
    /\ \E i, j \in 1..Len(db.roles) :
          /\ i # j
          /\ db.roles[i].project = request.project.name
          /\ db.roles[j].project = request.project.name
          /\ db.roles[i].username = db.roles[j].username

(***************************************************************************)
(* C6                                                                      *)
(***************************************************************************)
\* the journal entries of the project of the request
OwnJournals ==
    LET own(e) == e.name = request.project.name IN SelectSeq(db.journals, own)

\* C6: on a project_detail request with the canonical name the journal
\* holds journal entries of the name of the project only, at most 50 of
\* them, by submitted_date descending, and no entry left out is more recent
\* than one returned.
C6_JournalMostRecent50 ==
    Done("project_detail") /\ Canonical =>
        LET j == response.journal IN
        /\ \A a \in 1..Len(j) : InSeq(OwnJournals, j[a])
        /\ \A a, b \in 1..Len(j) : a # b => j[a] # j[b]
        /\ Len(j) <= 50
        /\ Len(j) = (IF Len(OwnJournals) < 50 THEN Len(OwnJournals) ELSE 50)
        /\ \A a, b \in 1..Len(j) : a < b => j[a].submitted_date >= j[b].submitted_date
        /\ \A e \in 1..Len(OwnJournals) :
              ~InSeq(j, OwnJournals[e]) =>
                  \A a \in 1..Len(j) :
                      OwnJournals[e].submitted_date <= j[a].submitted_date

C6_Witness ==
    /\ Done("project_detail")
    /\ Canonical
    /\ Len(response.journal) = 50
    /\ Len(OwnJournals) > 50
    /\ \E e \in 1..Len(db.journals) : db.journals[e].name # request.project.name

(***************************************************************************)
(* C7                                                                      *)
(***************************************************************************)
RECURSIVE EscapeTerm(_)
\* a term written with a backslash before each character
EscapeTerm(term) ==
    IF term = <<>> THEN <<>>
    ELSE <<"\\", term[1]>> \o EscapeTerm(Tail(term))

RECURSIVE Requote(_)
\* a query text whose terms are the given ones
Requote(terms) ==
    IF terms = <<>> THEN <<>>
    ELSE IF Len(terms) = 1 THEN EscapeTerm(terms[1])
    ELSE EscapeTerm(terms[1]) \o <<" ">> \o Requote(Tail(terms))

\* what a response says of the result of the query
Outcome(resp) ==
    [status |-> resp.status, matching |-> resp.matching, page |-> resp.page]

\* the view of the request on another query text
SameRequestWith(q) ==
    IF request.view = "releases_list"
    THEN releases_list_view(db, request.project, request.project_name, q, request.page)
    ELSE journals_list_view(db, request.project, request.project_name, q, request.page)

\* C7: in releases_list and journals_list a term without a colon, or whose
\* field is not version, does not filter: the result of a query is that of
\* the query without these terms, and a query of such terms only gives the
\* result of no query at all.
C7_OtherTermsIgnored ==
    \A view \in ProjectListViews :
        Done(view) /\ Canonical /\ ~BadPage /\ Truthy(request.q)
            /\ shlex_split(request.q.text).ok =>
                /\ shlex_split(Requote(VersionTerms)).terms = VersionTerms
                /\ Outcome(response) = Outcome(SameRequestWith(Text(Requote(VersionTerms))))
                /\ VersionTerms = <<>> =>
                      Outcome(response) = Outcome(SameRequestWith(None))

C7_Witness ==
    /\ Done("releases_list")
    /\ response.status = 200
    /\ Len(QueryTerms) = 2
    /\ Len(VersionTerms) = 1
    /\ QueryTerms[1] = <<"1">>
    /\ Len(response.matching) = 2

(***************************************************************************)
(* C8                                                                      *)
(***************************************************************************)
\* C8 as stated: in releases_list and journals_list with a version:value
\* term in the query, an item of the project is returned if and only if its
\* version contains the value of one of these terms as a substring, letters
\* compared without regard to case; every item returned is of the project.
C8_SubstringOfVersion ==
    \A view \in ProjectListViews :
        Done(view) /\ response.status = 200 /\ Truthy(request.q)
            /\ VersionTerms # <<>> =>
                \A i \in 1..Len(TableOf(view)) :
                    LET row == TableOf(view)[i] IN
                    InSeq(response.matching, row)
                        <=> /\ OfProject(view, row)
                            /\ ~VersionOf(view, row).null
                            /\ \E k \in 1..Len(VersionTerms) :
                                  Contains(Lower(VersionOf(view, row).text),
                                           Lower(ValueOf(VersionTerms[k])))

\* C8 amended: in releases_list and journals_list with a version:value term
\* in the query (key in any case, value the text after the first colon), an
\* item of the project is returned if and only if its whole version is an
\* instance of the value of one of these terms taken as a LIKE pattern
\* (% any run of characters, _ any one character, backslash before a
\* literal character), letters compared without regard to case; every item
\* returned is of the project.
C8_VersionMatchesSomeValue ==
    \A view \in ProjectListViews :
        Done(view) /\ response.status = 200 /\ Truthy(request.q)
            /\ VersionTerms # <<>> =>
                /\ \A i \in 1..Len(response.matching) :
                      /\ InSeq(TableOf(view), response.matching[i])
                      /\ OfProject(view, response.matching[i])
                /\ \A i \in 1..Len(TableOf(view)) :
                      LET row == TableOf(view)[i] IN
                      InSeq(response.matching, row)
                          <=> /\ OfProject(view, row)
                              /\ ~VersionOf(view, row).null
                              /\ \E k \in 1..Len(VersionTerms) :
                                    Matches(ValueOf(VersionTerms[k]),
                                            VersionOf(view, row).text)

C8_Witness ==
    /\ Done("journals_list")
    /\ response.status = 200
    /\ Len(VersionTerms) = 2
    /\ Len(response.matching) >= 2
    /\ Len(response.matching) < Len(OwnJournals)
    /\ \A k \in 1..2 :
          \E i \in 1..Len(response.matching) :
              ~Matches(ValueOf(VersionTerms[k]), response.matching[i].version.text)

(***************************************************************************)
(* C9                                                                      *)
(***************************************************************************)
\* the rows of page p of a result, 25 to the page, the first page being 1
PageSlice(rows, p) ==
    LET on == {i \in 1..Len(rows) : (p - 1) * 25 < i /\ i <= p * 25} IN
    [k \in 1..Cardinality(on) |-> rows[(p - 1) * 25 + k]]

\* the result is in the order of its view
InViewOrder(view, rows) ==
    \A a, b \in 1..Len(rows) :
        a < b =>
            CASE view = "project_list" -> ~StrLess(rows[b].name, rows[a].name)
              [] view = "releases_list" -> rows[a]._pypi_ordering >= rows[b]._pypi_ordering
              [] view = "journals_list" -> rows[a].submitted_date >= rows[b].submitted_date

\* C9 as stated: for every integer page number p a listing returns at most
\* 25 items, the slice for page p of the whole result in the order of the
\* view, and echoes q.
C9_SliceOfPageAsked ==
    \A view \in ListViews :
        Done(view) /\ response.status = 200 =>
            /\ Len(response.page.items) <= 25
            /\ response.page.items = PageSlice(response.matching, PageAsked)
            /\ InViewOrder(view, response.matching)
            /\ response.query = request.q

\* C9 amended: for every integer page number p a listing returns at most 25
\* items, the slice for page p of the whole result in the order of the view
\* (projects by name ascending, releases by the release ordering key
\* descending, journal entries by submitted_date descending), a page number
\* below 1 being served as page 1; it echoes q.
C9_SliceOfPageServed ==
    \A view \in ListViews :
        Done(view) /\ response.status = 200 =>
            /\ Len(response.page.items) <= 25
            /\ response.page.items =
                  PageSlice(response.matching, IF PageAsked < 1 THEN 1 ELSE PageAsked)
            /\ InViewOrder(view, response.matching)
            /\ response.query = request.q

C9_Witness ==
    /\ Done("releases_list")
    /\ response.status = 200
    /\ PageAsked = 2
    /\ Len(response.matching) > 25
    /\ Len(response.page.items) = Len(response.matching) - 25
    /\ response.page.items[1] = response.matching[26]

(***************************************************************************)
(* C10                                                                     *)
(***************************************************************************)
\* C10: releases_list and journals_list look at the name before the page:
\* a request with a project_name that is not the normalized_name and a
\* page that is no integer ends in the 301 redirect, and the 400 response
\* is given only when project_name is the normalized_name.
C10_RedirectBeforePage ==
    \A view \in ProjectListViews :
        Done(view) =>
            /\ ~Canonical /\ BadPage => response.status = 301
            /\ response.status = 400 => Canonical /\ BadPage

C10_Witness ==
    /\ Done("releases_list")
    /\ ~Canonical
    /\ BadPage
    /\ response.status = 301

=============================================================================
